---- MODULE Spec2Model ----
(***************************************************************************)
(* Model of the document chatbot: DocumentProcessor.clean_text and         *)
(* chunk_text (document_processor.py) and VectorStore (vector_store.py).   *)
(* Text is a sequence of one-character strings.  The embedding service,    *)
(* the FAISS index and the file system are environment: their failures and *)
(* the nearest neighbours they return are nondeterministic choices.        *)
(***************************************************************************)
EXTENDS Integers, Sequences, FiniteSets, TLC

\* ------------------------------------------------------------------ bounds
MaxTextLen == 6
MaxChunkSize == 5
MaxIters == 12
MaxStore == 2
MaxBatch == 2
MaxK == 3
MaxContext == 4
MaxTurns == 3
MaxFiles == 2
ScaledChunkSize == 5

\* --------------------------------------------------------------- alphabet
\* "a" stands for a word character, "#" for a character outside the
\* allow-list of clean_text; " " and "\n" are the whitespace characters.
Alphabet == {"a", ".", " ", "\n", "#"}

IsSpace(c) == c \in {" ", "\n"}

IsAllowed(c) == c \in {"a", ".", " ", "\n"}

Min(a, b) == IF a < b THEN a ELSE b

Max(a, b) == IF a > b THEN a ELSE b

Range(s) == {s[i] : i \in 1..Len(s)}

SeqsUpTo(S, n) == UNION {[1..m -> S] : m \in 0..n}

\* ------------------------------------------------- Python string helpers
\* A slice index as Python normalises it: negative counts from the end,
\* then clipped to 0..len.
PyIndex(i, n) == IF i < 0 THEN Max(i + n, 0) ELSE Min(i, n)

\* s[a:b] with 0-based Python indices
PySlice(s, a, b) ==
    LET lo == PyIndex(a, Len(s))
        hi == PyIndex(b, Len(s))
    IN  IF lo >= hi THEN <<>> ELSE SubSeq(s, lo + 1, hi)

\* s.rfind(c, a, b): highest 0-based index in s[a:b] holding c, or -1
RFind(s, c, a, b) ==
    LET lo == PyIndex(a, Len(s))
        hi == PyIndex(b, Len(s))
        hits == {i \in lo..(hi - 1) : s[i + 1] = c}
    IN  IF hits = {} THEN -1 ELSE CHOOSE i \in hits : \A j \in hits : j <= i

\* s.strip()
Strip(s) ==
    LET keep == {i \in 1..Len(s) : ~IsSpace(s[i])}
    IN  IF keep = {} THEN <<>>
        ELSE LET lo == CHOOSE i \in keep : \A j \in keep : i <= j
                 hi == CHOOSE i \in keep : \A j \in keep : j <= i
             IN  SubSeq(s, lo, hi)

\* ------------------------------------------------------------- clean_text
\* re.sub(r'\n+', '\n', text)
SubNewlines(s) ==
    LET F[i \in 0..Len(s)] ==
            IF i = 0 THEN <<>>
            ELSE IF s[i] = "\n" /\ i > 1 /\ s[i - 1] = "\n" THEN F[i - 1]
            ELSE Append(F[i - 1], s[i])
    IN  F[Len(s)]

\* re.sub(r'\s+', ' ', text)
SubWhitespace(s) ==
    LET F[i \in 0..Len(s)] ==
            IF i = 0 THEN <<>>
            ELSE IF IsSpace(s[i])
                 THEN IF i > 1 /\ IsSpace(s[i - 1]) THEN F[i - 1]
                      ELSE Append(F[i - 1], " ")
                 ELSE Append(F[i - 1], s[i])
    IN  F[Len(s)]

\* re.sub(r'[^\w\s\.,!?;:()\-]', '', text)
SubSpecial(s) == SelectSeq(s, IsAllowed)

clean_text(s) ==
    IF s = <<>> THEN <<>>
    ELSE Strip(SubSpecial(SubWhitespace(SubNewlines(s))))

\* ------------------------------------------------------------- chunk_text
\* A plausible slip in the boundary search: the period is looked for up to
\* the end of the text instead of the end of the window.
CutEndUnbounded(t, st, cs) ==
    LET raw == st + cs
        sentence_end == RFind(t, ".", st, Len(t))
        paragraph_end == RFind(t, "\n", st, raw)
        word_end == RFind(t, " ", st, raw)
    IN  IF raw < Len(t)
        THEN IF sentence_end > st + (cs \div 2) THEN sentence_end + 1
             ELSE IF paragraph_end > st + (cs \div 2) THEN paragraph_end + 1
             ELSE IF word_end > st + (cs \div 2) THEN word_end
             ELSE raw
        ELSE raw

\* The cut position of one window of the loop: the value of `end` when the
\* chunk is sliced (lines 126-143).
CutEnd(t, st, cs) ==
    LET raw == st + cs
        sentence_end == RFind(t, ".", st, raw)
        paragraph_end == RFind(t, "\n", st, raw)
        word_end == RFind(t, " ", st, raw)
    IN  IF raw < Len(t)
        THEN IF sentence_end > st + (cs \div 2) THEN sentence_end + 1
             ELSE IF paragraph_end > st + (cs \div 2) THEN paragraph_end + 1
             ELSE IF word_end > st + (cs \div 2) THEN word_end
             ELSE raw
        ELSE raw

\* A plausible slip in the advance of the window: the overlap is added.
NextStartForward(e, ov) == e + ov

\* line 150: start = end - overlap
NextStart(e, ov) == e - ov

VARIABLES
    text,        \* chunk_text: the argument
    cleaned,     \* chunk_text: `text` after clean_text
    chunk_size,
    overlap,
    start,
    end,
    chunks,
    windows,     \* the <<start, end>> of every window cut so far
    pc           \* "call", "loop", "done"

chunkVars == <<text, cleaned, chunk_size, overlap, start, end, chunks, windows, pc>>

VARIABLES
    index,       \* VectorStore.index: the number of vectors FAISS holds (ntotal)
    texts,       \* VectorStore.texts
    metadata,    \* VectorStore.metadata
    dimension,   \* VectorStore.dimension
    disk,        \* the two files <filepath>.faiss and <filepath>.pkl
    saved,       \* what the latest save() wrote, when it returned True
    lastOp       \* the latest VectorStore call and what it returned

storeVars == <<index, texts, metadata, dimension, disk, saved, lastOp>>

VARIABLES
    chat_history,          \* st.session_state.chat_history
    documents_processed,   \* st.session_state.documents_processed
    processed_files,       \* st.session_state.processed_files
    processing_info,       \* st.session_state.processing_info
    suggested_questions,   \* st.session_state.suggested_questions
    appOp,                 \* the latest user action, its inputs and its outcome
    gen                    \* the generate_response call made by Generate

appVars == <<chat_history, documents_processed, processed_files,
             processing_info, suggested_questions, appOp, gen>>

vars == <<chunkVars, storeVars, appVars>>

\* No generate_response call made yet.
NoGeneration ==
    [chunks |-> <<>>, called |-> FALSE, prompt |-> <<>>, calls |-> 0,
     response |-> ""]

\* No user action taken yet.
NoAction ==
    [op |-> "start", files |-> <<>>, success |-> FALSE, context |-> <<>>]

\* app.py lines 16-27, initialize_session_state
AppStart ==
    /\ chat_history = <<>>
    /\ documents_processed = FALSE
    /\ processed_files = <<>>
    /\ processing_info = <<>>
    /\ suggested_questions = <<>>
    /\ appOp = NoAction
    /\ gen = NoGeneration

\* vector_store.py line 16
EmbeddingDimension == 768

\* The state of a VectorStore right after __init__ (lines 12-19), on a disk
\* that holds no saved store, before any call.
StoreStart ==
    /\ index = 0
    /\ texts = <<>>
    /\ metadata = <<>>
    /\ dimension = EmbeddingDimension
    /\ disk = [faiss |-> [state |-> "absent", index |-> 0],
               pkl |-> [state |-> "absent", texts |-> <<>>, metadata |-> <<>>,
                        dimension |-> 0]]
    /\ saved = [valid |-> FALSE, index |-> 0, texts |-> <<>>,
                metadata |-> <<>>, dimension |-> 0]
    /\ lastOp = [op |-> "init", ret |-> TRUE, nbatch |-> 0, k |-> 0,
                 embedCalls |-> 0, error |-> FALSE, nresults |-> 0]

\* No chunk_text call in progress.
ChunkIdle ==
    /\ text = <<>>
    /\ cleaned = <<>>
    /\ chunk_size = 1
    /\ overlap = 0
    /\ start = 0
    /\ end = 0
    /\ chunks = <<>>
    /\ windows = <<>>
    /\ pc = "idle"

ChunkInit ==
    /\ text \in SeqsUpTo(Alphabet, MaxTextLen)
    /\ chunk_size \in 1..MaxChunkSize
    /\ overlap \in 0..(chunk_size - 1)
    /\ cleaned = <<>>
    /\ start = 0
    /\ end = 0
    /\ chunks = <<>>
    /\ windows = <<>>
    /\ pc = "call"
    /\ StoreStart
    /\ AppStart

\* A plausible slip in the short-text return: the argument is returned as it
\* came, without normalisation.
ChunkEnterRaw ==
    /\ pc = "call"
    /\ UNCHANGED <<text, chunk_size, overlap, end, windows>>
    /\ UNCHANGED storeVars
    /\ UNCHANGED appVars
    /\ IF text = <<>>
       THEN /\ chunks' = <<>>
            /\ pc' = "done"
            /\ UNCHANGED <<cleaned, start>>
       ELSE /\ cleaned' = clean_text(text)
            /\ start' = 0
            /\ IF Len(cleaned') <= chunk_size
               THEN chunks' = <<text>> /\ pc' = "done"
               ELSE chunks' = <<>> /\ pc' = IF 0 < Len(cleaned') THEN "loop" ELSE "done"

\* lines 113-123: the early returns and the set-up of the loop
ChunkEnter ==
    /\ pc = "call"
    /\ UNCHANGED <<text, chunk_size, overlap, end, windows>>
    /\ UNCHANGED storeVars
    /\ UNCHANGED appVars
    /\ IF text = <<>>
       THEN /\ chunks' = <<>>
            /\ pc' = "done"
            /\ UNCHANGED <<cleaned, start>>
       ELSE /\ cleaned' = clean_text(text)
            /\ start' = 0
            /\ IF Len(cleaned') <= chunk_size
               THEN chunks' = <<cleaned'>> /\ pc' = "done"
               ELSE chunks' = <<>> /\ pc' = IF 0 < Len(cleaned') THEN "loop" ELSE "done"

\* lines 125-152: one iteration of the while loop
ChunkIter ==
    /\ pc = "loop"
    /\ Len(windows) < MaxIters
    /\ start < Len(cleaned)
    /\ end' = CutEnd(cleaned, start, chunk_size)
    /\ LET chunk == Strip(PySlice(cleaned, start, end'))
       IN  chunks' = IF chunk # <<>> THEN Append(chunks, chunk) ELSE chunks
    /\ windows' = Append(windows, <<start, end'>>)
    /\ start' = NextStart(end', overlap)
    /\ pc' = IF start' >= Len(cleaned) THEN "done" ELSE "loop"
    /\ UNCHANGED <<text, cleaned, chunk_size, overlap>>
    /\ UNCHANGED storeVars
    /\ UNCHANGED appVars

ChunkNext == ChunkEnter \/ ChunkIter

ChunkSpec == ChunkInit /\ [][ChunkNext]_vars

\* ------------------------------------------------------------ VectorStore
\* The chunk strings and file names the callers pass: a batch holds distinct
\* chunks, the same chunk can come again in a later batch.
ChunkTexts == <<"c1", "c2", "c3", "c4">>

Batches == {SubSeq(ChunkTexts, 1, n) : n \in 0..Min(MaxBatch, Len(ChunkTexts))}

FileNames == {"a.txt"}

\* The injective sequences of length n over S: the neighbours FAISS can return
Arrangements(S, n) ==
    {f \in [1..n -> S] : \A i, j \in 1..n : i # j => f[i] # f[j]}

\* The metadata argument of add_documents: None, or one dict per text as
\* process_documents builds them (app.py line 193).
MetadataArgs(ts) ==
    {[given |-> FALSE, list |-> <<>>]} \cup
    {[given |-> TRUE,
      list |-> [i \in 1..Len(ts) |-> [source |-> f, chunk_id |-> i - 1]]] :
        f \in FileNames}

\* lines 68-71: the dicts appended to self.metadata
MetadataToAppend(ts, md) ==
    IF md.given /\ md.list # <<>> THEN md.list
    ELSE [i \in 1..Len(ts) |-> [chunk_id |-> (i - 1) + Len(metadata)]]

get_stats ==
    [total_chunks |-> Len(texts), index_size |-> index,
     dimension |-> dimension]

OpRecord(op, ret) ==
    [op |-> op, ret |-> ret, nbatch |-> 0, k |-> 0, embedCalls |-> 0,
     error |-> FALSE, nresults |-> 0]

\* VectorStore.__init__ (lines 12-19): a fresh store; the disk is untouched.
NewStore ==
    /\ index' = 0
    /\ texts' = <<>>
    /\ metadata' = <<>>
    /\ dimension' = EmbeddingDimension
    /\ lastOp' = OpRecord("init", TRUE)
    /\ UNCHANGED <<disk, saved>>
    /\ UNCHANGED chunkVars
    /\ UNCHANGED appVars

\* A plausible slip in add_documents: the vectors embedded before the service
\* failed are kept.
AddDocumentsPartial ==
    \E ts \in Batches :
    \E md \in MetadataArgs(ts) :
    \E failAt \in 0..Len(ts) :
        /\ failAt = 0 => index + Len(ts) <= MaxStore
        /\ failAt = 0 => Len(texts) + Len(ts) <= MaxStore
        /\ failAt # 0 => index + failAt - 1 <= MaxStore
        /\ failAt # 0 => Len(texts) + failAt - 1 <= MaxStore
        /\ UNCHANGED <<dimension, disk, saved>>
        /\ UNCHANGED chunkVars
        /\ UNCHANGED appVars
        /\ IF ts = <<>>
           THEN /\ lastOp' = [OpRecord("add", FALSE) EXCEPT !.nbatch = Len(ts)]
                /\ UNCHANGED <<index, texts, metadata>>
           ELSE IF failAt # 0
           THEN /\ lastOp' = [OpRecord("add", FALSE) EXCEPT
                                 !.nbatch = Len(ts), !.embedCalls = failAt,
                                 !.error = TRUE]
                /\ index' = index + (failAt - 1)
                /\ texts' = texts \o SubSeq(ts, 1, failAt - 1)
                /\ metadata' = metadata \o
                                 SubSeq(MetadataToAppend(ts, md), 1, failAt - 1)
           ELSE /\ lastOp' = [OpRecord("add", TRUE) EXCEPT
                                 !.nbatch = Len(ts), !.embedCalls = Len(ts)]
                /\ index' = index + Len(ts)
                /\ texts' = texts \o ts
                /\ metadata' = metadata \o MetadataToAppend(ts, md)

\* VectorStore.add_documents with _get_embeddings (lines 21-78).  failAt = 0:
\* every embed_content call succeeds; failAt = p: the call for the p-th text
\* raises, _get_embeddings reports it and returns the empty array.
AddDocuments ==
    \E ts \in Batches :
    \E md \in MetadataArgs(ts) :
    \E failAt \in 0..Len(ts) :
        /\ failAt = 0 => index + Len(ts) <= MaxStore
        /\ failAt = 0 => Len(texts) + Len(ts) <= MaxStore
        /\ UNCHANGED <<dimension, disk, saved>>
        /\ UNCHANGED chunkVars
        /\ UNCHANGED appVars
        /\ IF ts = <<>>
           THEN /\ lastOp' = [OpRecord("add", FALSE) EXCEPT !.nbatch = Len(ts)]
                /\ UNCHANGED <<index, texts, metadata>>
           ELSE IF failAt # 0
           THEN /\ lastOp' = [OpRecord("add", FALSE) EXCEPT
                                 !.nbatch = Len(ts), !.embedCalls = failAt,
                                 !.error = TRUE]
                /\ UNCHANGED <<index, texts, metadata>>
           ELSE /\ lastOp' = [OpRecord("add", TRUE) EXCEPT
                                 !.nbatch = Len(ts), !.embedCalls = Len(ts)]
                /\ index' = index + Len(ts)
                /\ texts' = texts \o ts
                /\ metadata' = metadata \o MetadataToAppend(ts, md)

\* lines 97-109: the offsets FAISS returned, joined to texts and metadata
SearchResults(hits) ==
    LET F[i \in 0..Len(hits)] ==
            IF i = 0 THEN <<>>
            ELSE IF 0 <= hits[i] /\ hits[i] < Len(texts)
                 THEN Append(F[i - 1],
                        [text |-> texts[hits[i] + 1],
                         metadata |-> IF hits[i] < Len(metadata)
                                      THEN metadata[hits[i] + 1] ELSE <<>>])
                 ELSE F[i - 1]
    IN  F[Len(hits)]

\* A plausible slip in search: the test for the empty index is missing.
SearchNoEmptyTest ==
    \E k \in 1..MaxK :
    \E embedFails \in BOOLEAN :
    \E hits \in Arrangements(0..(index - 1), Min(k, index)) :
        /\ UNCHANGED <<index, texts, metadata, dimension, disk, saved>>
        /\ UNCHANGED chunkVars
        /\ UNCHANGED appVars
        /\ IF embedFails
           THEN lastOp' = [OpRecord("search", TRUE) EXCEPT
                              !.k = k, !.embedCalls = 1, !.error = TRUE]
           ELSE lastOp' = [OpRecord("search", TRUE) EXCEPT
                              !.k = k, !.embedCalls = 1,
                              !.nresults = Len(SearchResults(hits))]

\* VectorStore.search (lines 80-113).  hits: the offsets of the
\* min(k, ntotal) nearest vectors, in the order FAISS ranks them.
Search ==
    \E k \in 1..MaxK :
    \E embedFails \in BOOLEAN :
    \E hits \in Arrangements(0..(index - 1), Min(k, index)) :
        /\ UNCHANGED <<index, texts, metadata, dimension, disk, saved>>
        /\ UNCHANGED chunkVars
        /\ UNCHANGED appVars
        /\ IF index = 0
           THEN lastOp' = [OpRecord("search", TRUE) EXCEPT !.k = k]
           ELSE IF embedFails
           THEN lastOp' = [OpRecord("search", TRUE) EXCEPT
                              !.k = k, !.embedCalls = 1, !.error = TRUE]
           ELSE lastOp' = [OpRecord("search", TRUE) EXCEPT
                              !.k = k, !.embedCalls = 1,
                              !.nresults = Len(SearchResults(hits))]

\* No save() has returned True since the files last changed.
NothingSaved ==
    [index |-> 0, texts |-> <<>>, metadata |-> <<>>, dimension |-> 0,
     valid |-> FALSE]

CorruptFaiss == [index |-> 0, state |-> "corrupt"]

CorruptPkl ==
    [texts |-> <<>>, metadata |-> <<>>, dimension |-> 0, state |-> "corrupt"]

\* What save() writes when nothing fails
WrittenFaiss == [state |-> "ok", index |-> index]

WrittenPkl ==
    [state |-> "ok", texts |-> texts, metadata |-> metadata,
     dimension |-> dimension]

\* VectorStore.save (lines 115-135).  fail says which step raises:
\* os.makedirs, faiss.write_index (the file is left as it was or half
\* written), open(pkl, 'wb') (the file is left as it was), pickle.dump (the
\* file is already truncated), or none.
Save ==
    \E fail \in {"none", "makedirs", "write_index", "open", "dump"} :
        /\ UNCHANGED <<index, texts, metadata, dimension>>
        /\ UNCHANGED chunkVars
        /\ UNCHANGED appVars
        /\ lastOp' = [OpRecord("save", fail = "none") EXCEPT
                         !.error = (fail # "none")]
        /\ CASE fail = "makedirs" -> UNCHANGED <<disk, saved>>
             [] fail = "write_index" ->
                    /\ disk' \in {disk, [disk EXCEPT !.faiss = CorruptFaiss]}
                    /\ saved' = IF disk' = disk THEN saved ELSE NothingSaved
             [] fail = "open" ->
                    /\ disk' = [disk EXCEPT !.faiss = WrittenFaiss]
                    /\ saved' = NothingSaved
             [] fail = "dump" ->
                    /\ disk' = [faiss |-> WrittenFaiss, pkl |-> CorruptPkl]
                    /\ saved' = NothingSaved
             [] fail = "none" ->
                    /\ disk' = [faiss |-> WrittenFaiss, pkl |-> WrittenPkl]
                    /\ saved' = [valid |-> TRUE, index |-> index,
                                 texts |-> texts, metadata |-> metadata,
                                 dimension |-> dimension]

\* A plausible slip in load: the metadata of the bundle is not restored.
LoadWithoutMetadata ==
    \E fail \in {"none", "read_index", "read_pkl"} :
        /\ UNCHANGED <<disk, saved>>
        /\ UNCHANGED chunkVars
        /\ UNCHANGED appVars
        /\ IF disk.faiss.state = "absent" \/ disk.pkl.state = "absent"
           THEN /\ lastOp' = OpRecord("load", FALSE)
                /\ UNCHANGED <<index, texts, metadata, dimension>>
           ELSE IF fail = "read_index" \/ disk.faiss.state = "corrupt"
           THEN /\ lastOp' = [OpRecord("load", FALSE) EXCEPT !.error = TRUE]
                /\ UNCHANGED <<index, texts, metadata, dimension>>
           ELSE IF fail = "read_pkl" \/ disk.pkl.state = "corrupt"
           THEN /\ lastOp' = [OpRecord("load", FALSE) EXCEPT !.error = TRUE]
                /\ index' = disk.faiss.index
                /\ UNCHANGED <<texts, metadata, dimension>>
           ELSE /\ lastOp' = OpRecord("load", TRUE)
                /\ index' = disk.faiss.index
                /\ texts' = disk.pkl.texts
                /\ dimension' = disk.pkl.dimension
                /\ UNCHANGED metadata

\* VectorStore.load (lines 137-156).  fail says which read raises:
\* faiss.read_index, open/pickle.load of the bundle, or none; a file save()
\* left half written cannot be read either.
Load ==
    \E fail \in {"none", "read_index", "read_pkl"} :
        /\ UNCHANGED <<disk, saved>>
        /\ UNCHANGED chunkVars
        /\ UNCHANGED appVars
        /\ IF disk.faiss.state = "absent" \/ disk.pkl.state = "absent"
           THEN /\ lastOp' = OpRecord("load", FALSE)
                /\ UNCHANGED <<index, texts, metadata, dimension>>
           ELSE IF fail = "read_index" \/ disk.faiss.state = "corrupt"
           THEN /\ lastOp' = [OpRecord("load", FALSE) EXCEPT !.error = TRUE]
                /\ UNCHANGED <<index, texts, metadata, dimension>>
           ELSE IF fail = "read_pkl" \/ disk.pkl.state = "corrupt"
           THEN /\ lastOp' = [OpRecord("load", FALSE) EXCEPT !.error = TRUE]
                /\ index' = disk.faiss.index
                /\ UNCHANGED <<texts, metadata, dimension>>
           ELSE /\ lastOp' = OpRecord("load", TRUE)
                /\ index' = disk.faiss.index
                /\ texts' = disk.pkl.texts
                /\ metadata' = disk.pkl.metadata
                /\ dimension' = disk.pkl.dimension

\* VectorStore.clear (lines 158-162)
Clear ==
    /\ index' = 0
    /\ texts' = <<>>
    /\ metadata' = <<>>
    /\ lastOp' = OpRecord("clear", TRUE)
    /\ UNCHANGED <<dimension, disk, saved>>
    /\ UNCHANGED chunkVars
    /\ UNCHANGED appVars

StoreInit == StoreStart /\ ChunkIdle /\ AppStart

StoreNext == NewStore \/ AddDocuments \/ Search \/ Save \/ Load \/ Clear

StoreSpec == StoreInit /\ [][StoreNext]_vars

\* ------------------------------------------------------------ ChatHandler
\* chat_handler.py line 61: context_chunks[:3]
TopChunks == 3

\* metadata.get('source'): the dict has a non-empty 'source'
HasSource(m) == "source" \in DOMAIN m

\* The chunks search can hand to generate_response: a text with the metadata
\* stored beside it, with or without a source.
ContextValues ==
    {[text |-> "c1", metadata |-> [source |-> "a.txt", chunk_id |-> 0]],
     [text |-> "c2", metadata |-> [source |-> "b.pdf", chunk_id |-> 0]],
     [text |-> "c3", metadata |-> [chunk_id |-> 2]]}

Questions == {"q1"}

\* One labeled excerpt of the prompt (lines 62-66)
Excerpt(i, c) ==
    [label |-> i,
     source |-> IF HasSource(c.metadata) THEN c.metadata.source ELSE "",
     text |-> c.text]

\* A plausible slip in _prepare_context: every chunk is used, not the top 3.
PrepareContextAll(cc) == [i \in 1..Len(cc) |-> Excerpt(i, cc[i])]

\* ChatHandler._prepare_context (lines 55-68): the excerpts joined into the
\* context string, in order; no chunk gives the empty context.
PrepareContext(cc) ==
    IF cc = <<>> THEN <<>>
    ELSE [i \in 1..Min(TopChunks, Len(cc)) |-> Excerpt(i, cc[i])]

\* ChatHandler._create_prompt (lines 70-97)
CreatePrompt(query, context) ==
    IF context # <<>>
    THEN [kind |-> "document_context", excerpts |-> context, query |-> query]
    ELSE [kind |-> "no_context", excerpts |-> <<>>, query |-> query]

\* What the generation service does with one generate_content call
Outcomes == {"text", "empty", "raise"}

\* ChatHandler.generate_response (lines 34-53): one generate_content call;
\* empty text gives the apology, an exception the error message.
GenerateResponse(query, cc, outcome) ==
    [chunks |-> cc,
     called |-> TRUE,
     prompt |-> CreatePrompt(query, PrepareContext(cc)),
     calls |-> 1,
     response |-> CASE outcome = "text" -> "answer"
                    [] outcome = "empty" -> "apology"
                    [] outcome = "raise" -> "error"]

\* A generate_response call on any list of context chunks
Generate ==
    \E query \in Questions :
    \E cc \in SeqsUpTo(ContextValues, MaxContext) :
    \E outcome \in Outcomes :
        /\ gen' = GenerateResponse(query, cc, outcome)
        /\ UNCHANGED <<chat_history, documents_processed, processed_files,
                       processing_info, suggested_questions, appOp>>
        /\ UNCHANGED chunkVars
        /\ UNCHANGED storeVars

ChatInit == StoreStart /\ ChunkIdle /\ AppStart

ChatNext == Generate

ChatSpec == ChatInit /\ [][ChatNext]_vars

\* ------------------------------------------------------------ the session
\* chunk_text's defaults chunk_size = 1000, overlap = 200 (line 111), scaled:
\* the overlap stays a fifth of the chunk size.
ScaledOverlap == ScaledChunkSize \div 5

\* The while loop of chunk_text (lines 125-152) as a function of its state
RECURSIVE ChunkLoop(_, _, _, _, _, _)
ChunkLoop(t, st, cs, ov, acc, fuel) ==
    IF fuel = 0 \/ st >= Len(t) THEN acc
    ELSE LET e == CutEnd(t, st, cs)
             chunk == Strip(PySlice(t, st, e))
         IN  ChunkLoop(t, NextStart(e, ov), cs, ov,
                       IF chunk # <<>> THEN Append(acc, chunk) ELSE acc,
                       fuel - 1)

\* DocumentProcessor.chunk_text (lines 110-154)
chunk_text(t, cs, ov) ==
    IF t = <<>> THEN <<>>
    ELSE LET c == clean_text(t)
         IN  IF Len(c) <= cs THEN <<c>>
             ELSE ChunkLoop(c, 0, cs, ov, <<>>, MaxIters)

\* The files handed to process_documents: the name, its last dot-separated
\* part, the text the parser finds in the file, and whether the parser raises
\* on it.  d.exe has a type the uploader widget does not offer (app.py line
\* 86) and process_uploaded_file still handles (lines 91-93).
Uploads ==
    {[text |-> <<"a", "a", ".", " ", "a", "a", " ", "a", "a", "\n">>,
      name |-> "a.txt", ext |-> "txt", corrupt |-> FALSE],
     [text |-> <<"\n", "a", "a">>,
      name |-> "b.PDF", ext |-> "PDF", corrupt |-> FALSE],
     [text |-> <<"a">>,
      name |-> "c.docx", ext |-> "docx", corrupt |-> TRUE],
     [text |-> <<"a">>,
      name |-> "d.exe", ext |-> "exe", corrupt |-> FALSE]}

\* The non-empty lists of up to MaxFiles different files of one upload
UploadBatches ==
    UNION {Arrangements(Uploads, n) : n \in 1..MaxFiles}

\* str.lower() on the extensions in use
Lower(e) == IF e = "PDF" THEN "pdf" ELSE e

\* extract_text_from_pdf / _docx / _txt (lines 11-76): any exception is
\* reported and gives "", otherwise the text, stripped.
ExtractText(f) == IF f.corrupt THEN <<>> ELSE Strip(f.text)

\* A plausible slip in process_uploaded_file: an unknown type is read as text.
ProcessUploadedFileAnyType(f) == ExtractText(f)

\* DocumentProcessor.process_uploaded_file (lines 78-93)
process_uploaded_file(f) ==
    IF Lower(f.ext) \in {"pdf", "docx", "txt"} THEN ExtractText(f)
    ELSE <<>>

\* app.py lines 153-182: the loop over the uploaded files
ExtractBatch(files) ==
    LET F[i \in 0..Len(files)] ==
            IF i = 0
            THEN [processed_files |-> <<>>, processing_info |-> <<>>,
                  all_chunks |-> <<>>]
            ELSE LET t == process_uploaded_file(files[i])
                     cs == chunk_text(t, ScaledChunkSize, ScaledOverlap)
                 IN  IF t # <<>>
                     THEN [processed_files |->
                               Append(F[i - 1].processed_files, files[i].name),
                           processing_info |->
                               Append(F[i - 1].processing_info,
                                      [chunks |-> Len(cs),
                                       file |-> files[i].name,
                                       characters |-> Len(t)]),
                           all_chunks |-> F[i - 1].all_chunks \o cs]
                     ELSE F[i - 1]
    IN  F[Len(files)]

\* app.py line 193: one dict per chunk, file by file
BatchMetadata(info) ==
    LET F[i \in 0..Len(info)] ==
            IF i = 0 THEN <<>>
            ELSE F[i - 1] \o
                 [j \in 1..info[i].chunks |->
                     [source |-> info[i].file, chunk_id |-> j - 1]]
    IN  F[Len(info)]

\* What lines 153-194 compute from each batch a user can upload
BatchResult ==
    [files \in UploadBatches |->
        LET b == ExtractBatch(files)
        IN  [metadata |-> BatchMetadata(b.processing_info),
             processed_files |-> b.processed_files,
             processing_info |-> b.processing_info,
             all_chunks |-> b.all_chunks]]

\* A plausible slip in process_documents: the store is not cleared first.
StoreKept == [index |-> index, texts |-> texts, metadata |-> metadata]

\* app.py line 188, vector_store.clear(): the store add_documents appends to
StoreCleared == [index |-> 0, texts |-> <<>>, metadata |-> <<>>]

\* The record of one user action
ActionRecord(op, files, success, context) ==
    [op |-> op, files |-> files, success |-> success, context |-> context]

\* process_documents (lines 138-211) on the button press of lines 92-94, with
\* the clear() and add_documents calls it makes.  failAt as in AddDocuments.
ProcessDocuments ==
    \E files \in UploadBatches :
        \E b \in {BatchResult[files]} :
        LET md == b.metadata
        IN  \E failAt \in 0..Len(b.all_chunks) :
            /\ UNCHANGED <<dimension, disk, saved>>
            /\ UNCHANGED chunkVars
            /\ UNCHANGED <<suggested_questions, gen>>
            /\ IF b.all_chunks = <<>>
               THEN /\ failAt = 0
                    /\ appOp' = ActionRecord("process", files, FALSE, <<>>)
                    /\ UNCHANGED <<index, texts, metadata, lastOp>>
                    /\ UNCHANGED <<chat_history, documents_processed,
                                   processed_files, processing_info>>
               ELSE IF failAt # 0
               THEN /\ index' = StoreCleared.index
                    /\ texts' = StoreCleared.texts
                    /\ metadata' = StoreCleared.metadata
                    /\ lastOp' = [OpRecord("add", FALSE) EXCEPT
                                     !.nbatch = Len(b.all_chunks),
                                     !.embedCalls = failAt, !.error = TRUE]
                    /\ appOp' = ActionRecord("process", files, FALSE, <<>>)
                    /\ UNCHANGED <<chat_history, documents_processed,
                                   processed_files, processing_info>>
               ELSE /\ index' = StoreCleared.index + Len(b.all_chunks)
                    /\ texts' = StoreCleared.texts \o b.all_chunks
                    /\ metadata' = StoreCleared.metadata \o md
                    /\ lastOp' = [OpRecord("add", TRUE) EXCEPT
                                     !.nbatch = Len(b.all_chunks),
                                     !.embedCalls = Len(b.all_chunks)]
                    /\ appOp' = ActionRecord("process", files, TRUE, <<>>)
                    /\ documents_processed' = TRUE
                    /\ processed_files' = b.processed_files
                    /\ processing_info' = b.processing_info
                    /\ chat_history' = <<>>

\* app.py lines 238 and 327: the k of the two search calls
AskK == 5

SuggestK == 3

\* The sizes the store can have after a batch, and for each size the orders
\* in which FAISS can rank the min(k, ntotal) nearest vectors
StoreSizes == {0} \cup {Len(BatchResult[b].all_chunks) : b \in UploadBatches}

Rankings ==
    [n \in StoreSizes |->
        [k \in {AskK, SuggestK} |-> Arrangements(0..(n - 1), Min(k, n))]]

HitOrders(k) ==
    IF index \in StoreSizes THEN Rankings[index][k]
    ELSE Arrangements(0..(index - 1), Min(k, index))

\* What search(query, k) returns: [] on an empty index or a failed embedding
SearchReturn(embedFails, hits) ==
    IF index = 0 \/ embedFails THEN <<>> ELSE SearchResults(hits)

\* The lastOp of a search(query, k) call, as Search records it
SearchRecord(k, embedFails, hits) ==
    IF index = 0 THEN [OpRecord("search", TRUE) EXCEPT !.k = k]
    ELSE IF embedFails
    THEN [OpRecord("search", TRUE) EXCEPT
             !.k = k, !.embedCalls = 1, !.error = TRUE]
    ELSE [OpRecord("search", TRUE) EXCEPT
             !.k = k, !.embedCalls = 1,
             !.nresults = Len(SearchResults(hits))]

\* app.py line 229 and 317: a user turn
UserTurn(content) ==
    [role |-> "user", content |-> content, has_sources |-> FALSE,
     sources |-> <<>>]

\* app.py lines 246-269: the assistant turn, with the sources of the top
\* three context chunks when there is any context
AssistantTurn(response, context_chunks) ==
    IF context_chunks # <<>>
    THEN [role |-> "assistant", content |-> response, has_sources |-> TRUE,
          sources |-> [i \in 1..Min(3, Len(context_chunks)) |->
                          IF HasSource(context_chunks[i].metadata)
                          THEN context_chunks[i].metadata.source
                          ELSE "Unknown"]]
    ELSE [role |-> "assistant", content |-> response, has_sources |-> FALSE,
          sources |-> <<>>]

\* display_chat_interface (lines 227-269) on a typed question; the chat input
\* is shown only when documents_processed (lines 118-119).
AskQuestion ==
    /\ documents_processed
    /\ Len(chat_history) + 2 <= MaxTurns
    /\ \E prompt \in Questions :
       \E embedFails \in BOOLEAN :
       \E hits \in HitOrders(AskK) :
       \E outcome \in Outcomes :
       \E context_chunks \in {SearchReturn(embedFails, hits)} :
          LET response ==
                  GenerateResponse(prompt, context_chunks, outcome).response
          IN  /\ chat_history' = chat_history \o
                     <<UserTurn(prompt), AssistantTurn(response, context_chunks)>>
              /\ lastOp' = SearchRecord(AskK, embedFails, hits)
              /\ appOp' = ActionRecord("ask", <<>>, TRUE, context_chunks)
    /\ UNCHANGED <<index, texts, metadata, dimension, disk, saved>>
    /\ UNCHANGED <<documents_processed, processed_files, processing_info,
                   suggested_questions, gen>>
    /\ UNCHANGED chunkVars

\* display_suggested_questions (lines 312-318): a click on a suggestion,
\* shown whenever there are suggested questions (app.py lines 134-136)
ClickSuggestedQuestion ==
    /\ suggested_questions # <<>>
    /\ Len(chat_history) + 1 <= MaxTurns
    /\ \E i \in 1..Len(suggested_questions) :
          chat_history' = Append(chat_history, UserTurn(suggested_questions[i]))
    /\ appOp' = ActionRecord("click", <<>>, TRUE, <<>>)
    /\ UNCHANGED storeVars
    /\ UNCHANGED <<documents_processed, processed_files, processing_info,
                   suggested_questions, gen>>
    /\ UNCHANGED chunkVars

\* What suggest_questions (chat_handler.py lines 115-150) can return on a
\* non-empty sample: the questions parsed from the reply, or [] when the reply
\* has none or the call fails.
SuggestionLists == {<<>>, <<"s1">>}

\* generate_suggested_questions (lines 320-344) on the button of lines 107-110
GenerateSuggestedQuestions ==
    /\ documents_processed
    /\ \E embedFails \in BOOLEAN :
       \E hits \in HitOrders(SuggestK) :
       \E questions \in SuggestionLists :
       \E found \in {SearchReturn(embedFails, hits)} :
          LET sample_chunks ==
                  IF found = <<>> /\ texts # <<>>
                  THEN [i \in 1..Min(3, Len(texts)) |->
                           [text |-> texts[i],
                            metadata |-> [source |-> "Document"]]]
                  ELSE found
          IN  /\ suggested_questions' =
                     IF sample_chunks # <<>> THEN questions
                     ELSE suggested_questions
              /\ lastOp' = SearchRecord(SuggestK, embedFails, hits)
              /\ appOp' = ActionRecord("suggest", <<>>, sample_chunks # <<>>,
                                       <<>>)
    /\ UNCHANGED <<index, texts, metadata, dimension, disk, saved>>
    /\ UNCHANGED <<chat_history, documents_processed, processed_files,
                   processing_info, gen>>
    /\ UNCHANGED chunkVars

\* A plausible slip in clear_all_data: the chat history is kept.
ClearAllDataKeepsHistory ==
    /\ index' = 0
    /\ texts' = <<>>
    /\ metadata' = <<>>
    /\ lastOp' = OpRecord("clear", TRUE)
    /\ documents_processed' = FALSE
    /\ processed_files' = <<>>
    /\ suggested_questions' = <<>>
    /\ processing_info' = <<>>
    /\ appOp' = ActionRecord("clear", <<>>, TRUE, <<>>)
    /\ UNCHANGED <<chat_history, dimension, disk, saved, gen>>
    /\ UNCHANGED chunkVars

\* clear_all_data (lines 346-360) with the VectorStore.clear it calls
ClearAllData ==
    /\ index' = 0
    /\ texts' = <<>>
    /\ metadata' = <<>>
    /\ lastOp' = OpRecord("clear", TRUE)
    /\ documents_processed' = FALSE
    /\ processed_files' = <<>>
    /\ chat_history' = <<>>
    /\ suggested_questions' = <<>>
    /\ processing_info' = <<>>
    /\ appOp' = ActionRecord("clear", <<>>, TRUE, <<>>)
    /\ UNCHANGED <<dimension, disk, saved, gen>>
    /\ UNCHANGED chunkVars

AppInit == StoreStart /\ ChunkIdle /\ AppStart

AppNext ==
    \/ ProcessDocuments
    \/ AskQuestion
    \/ ClickSuggestedQuestion
    \/ GenerateSuggestedQuestions
    \/ ClearAllData

AppSpec == AppInit /\ [][AppNext]_vars

\* ================================================================ claims
\* The positions of `cleaned` that the slice cleaned[w[1]:w[2]] holds.
WindowPositions(w) ==
    PyIndex(w[1], Len(cleaned)) .. (PyIndex(w[2], Len(cleaned)) - 1)

\* chunk with its first `ov` characters removed: chunk[ov:]
DropOverlap(chunk, ov) == PySlice(chunk, ov, Len(chunk))

\* The first chunk followed by every later chunk without its first `ov`
\* characters.
Reconstruct(cs, ov) ==
    LET F[i \in 0..Len(cs)] ==
            IF i = 0 THEN <<>>
            ELSE IF i = 1 THEN cs[1]
            ELSE F[i - 1] \o DropOverlap(cs[i], ov)
    IN  F[Len(cs)]

RECURSIVE IsSubseq(_, _)
\* every element of a occurs in b, in the same order
IsSubseq(a, b) ==
    IF a = <<>> THEN TRUE
    ELSE IF b = <<>> THEN FALSE
    ELSE IF Head(a) = Head(b) THEN IsSubseq(Tail(a), Tail(b))
    ELSE IsSubseq(a, Tail(b))

\* The windows after trimming, the empty ones left out, in cut order.
TrimmedWindows ==
    LET F[i \in 0..Len(windows)] ==
            IF i = 0 THEN <<>>
            ELSE LET c == Strip(PySlice(cleaned, windows[i][1], windows[i][2]))
                 IN  IF c # <<>> THEN Append(F[i - 1], c) ELSE F[i - 1]
    IN  F[Len(windows)]

\* C1: in every state reachable by add_documents, search, clear, save and
\* load calls (failed calls included), the index, the texts and the metadata
\* have the same length, so get_stats reports total_chunks = index_size.
C1_ParallelLengths ==
    /\ index = Len(texts)
    /\ Len(texts) = Len(metadata)
    /\ get_stats.total_chunks = get_stats.index_size

\* C2: every iteration of the window loop moves the window start strictly
\* forward, for every chunk_size >= 1 and 0 <= overlap < chunk_size (so the
\* loop ends after finitely many iterations).
C2_StartStrictlyIncreases ==
    [][(pc = "loop" /\ windows' # windows) => start' > start]_vars

\* C3: every chunk that chunk_text returns is non-empty after trimming,
\* whatever the input text.
C3_ChunksNonEmpty ==
    pc = "done" => \A i \in 1..Len(chunks) : Strip(chunks[i]) # <<>>

\* C4: no returned chunk is longer than chunk_size, and every cut position
\* satisfies start < end <= start + chunk_size.
C4_ChunkWithinSize ==
    [][/\ \A i \in 1..Len(chunks') : Len(chunks'[i]) <= chunk_size
       /\ (windows' # windows) => (start < end' /\ end' <= start + chunk_size)]_vars

\* C4 witness: a finished run of several windows, one cut at a boundary
\* before the raw offset and one chunk of full size.
C4_Witness ==
    /\ pc = "done"
    /\ Len(windows) >= 2
    /\ \E i \in 1..Len(windows) :
          /\ windows[i][2] < windows[i][1] + chunk_size
          /\ windows[i][2] < Len(cleaned)
    /\ \E i \in 1..Len(chunks) : Len(chunks[i]) = chunk_size

\* C5 as stated: for normalized text longer than chunk_size, the first chunk
\* followed by every later chunk without its first `overlap` characters
\* contains every character of the normalized text, in order.
C5_ReconstructionCovers ==
    (pc = "done" /\ Len(cleaned) > chunk_size)
        => IsSubseq(cleaned, Reconstruct(chunks, overlap))

\* C5 amended: for normalized text longer than chunk_size, when chunk_text
\* returns, the cut windows cover every position of the normalized text with
\* no gap (the first starts at 0, each next one starts `overlap` before the
\* previous cut, the last reaches the end of the text), and the chunks are
\* exactly the non-empty trimmed windows in cut order.
C5_WindowsCover ==
    (pc = "done" /\ Len(cleaned) > chunk_size) =>
        /\ windows # <<>>
        /\ windows[1][1] = 0
        /\ \A i \in 1..(Len(windows) - 1) :
              /\ windows[i + 1][1] = windows[i][2] - overlap
              /\ windows[i + 1][1] <= windows[i][2]
        /\ windows[Len(windows)][2] >= Len(cleaned)
        /\ \A p \in 0..(Len(cleaned) - 1) :
              \E i \in 1..Len(windows) : p \in WindowPositions(windows[i])
        /\ chunks = TrimmedWindows

\* C5 witness: a finished run over a longer text with a positive overlap in
\* which trimming made the reconstruction lose a character.
C5_Witness ==
    /\ pc = "done"
    /\ Len(cleaned) > chunk_size
    /\ overlap > 0
    /\ Len(chunks) >= 3
    /\ ~IsSubseq(cleaned, Reconstruct(chunks, overlap))

\* C6 as stated: for any text shorter than chunk_size, the empty text
\* included, chunk_text returns exactly one chunk, equal to clean_text(text).
C6_ShortTextOneChunk ==
    (pc = "done" /\ Len(text) < chunk_size)
        => (Len(chunks) = 1 /\ chunks[1] = clean_text(text))

\* C6 amended: for any non-empty text shorter than chunk_size, chunk_text
\* returns exactly one chunk, equal to clean_text(text); for the empty text
\* it returns no chunk.
C6_ShortNonEmptyTextOneChunk ==
    (pc = "done" /\ Len(text) < chunk_size) =>
        IF text = <<>> THEN chunks = <<>>
        ELSE Len(chunks) = 1 /\ chunks[1] = clean_text(text)

\* C6 witness: a short non-empty text that normalisation changed, returned
\* as one chunk.
C6_Witness ==
    /\ pc = "done"
    /\ text # <<>>
    /\ Len(text) < chunk_size
    /\ clean_text(text) # text
    /\ clean_text(text) # <<>>
    /\ Len(chunks) = 1

\* C7: search returns at most min(k, N) results for a store of N entries;
\* on an empty index it returns nothing, calls no embedding and reports no
\* error; a failed query embedding gives the empty result, and the call
\* still returns.
C7_SearchBounded ==
    lastOp.op = "search" =>
        /\ lastOp.ret
        /\ lastOp.nresults <= Min(lastOp.k, index)
        /\ lastOp.nresults <= Len(texts)
        /\ index = 0 => (/\ lastOp.nresults = 0
                         /\ lastOp.embedCalls = 0
                         /\ ~lastOp.error)
        /\ lastOp.error => lastOp.nresults = 0

\* C7 witness: a search that asked for more results than the non-empty
\* store holds and got every entry.
C7_Witness ==
    /\ lastOp.op = "search"
    /\ index > 0
    /\ lastOp.k > index
    /\ lastOp.nresults = index

\* C8: when the embedding service raises on any text of an add_documents
\* call, the call returns False, the index, texts and metadata are as before
\* the call, and no text was embedded more than once.
C8_AllOrNothing ==
    [][(lastOp'.op = "add" /\ lastOp'.error) =>
          /\ lastOp'.ret = FALSE
          /\ UNCHANGED <<index, texts, metadata>>
          /\ lastOp'.embedCalls <= lastOp'.nbatch]_vars

\* C8 witness: an add_documents call on a non-empty store whose first text
\* was embedded and whose second text made the service raise.
C8_Witness ==
    /\ lastOp.op = "add"
    /\ lastOp.error
    /\ lastOp.embedCalls = 2
    /\ Len(texts) >= 1

\* C9: after a save that returned True, a load that returns True yields a
\* store with the get_stats, the texts and the metadata the saved store had.
C9_RoundTrip ==
    (lastOp.op = "load" /\ lastOp.ret /\ saved.valid) =>
        /\ get_stats = [total_chunks |-> Len(saved.texts),
                        index_size |-> saved.index,
                        dimension |-> saved.dimension]
        /\ texts = saved.texts
        /\ metadata = saved.metadata

\* C9 witness: a successful load of a saved store of two entries.
C9_Witness ==
    /\ lastOp.op = "load"
    /\ lastOp.ret
    /\ saved.valid
    /\ Len(saved.texts) = 2
    /\ saved.metadata[1] # saved.metadata[2]

\* C10: load returns False when either file is missing, and every load that
\* returns False leaves the index, texts, metadata and dimension as they
\* were before the call.
C10_FailedLoadLeavesState ==
    [][lastOp'.op = "load" =>
          /\ (disk.faiss.state = "absent" \/ disk.pkl.state = "absent")
                => ~lastOp'.ret
          /\ ~lastOp'.ret => UNCHANGED <<index, texts, metadata, dimension>>]_vars

\* C11: the prompt of a generate_response call on n context chunks holds
\* labeled excerpts for exactly the first min(3, n) chunks, in rank order;
\* with n = 0 it is the no-context prompt without any excerpt; and the
\* generation service is called exactly once per call.
C11_PromptTopThree ==
    gen.called =>
        LET n == Len(gen.chunks)
            ex == gen.prompt.excerpts
        IN  /\ Len(ex) = Min(3, n)
            /\ \A i \in 1..Len(ex) :
                  /\ ex[i].label = i
                  /\ ex[i].text = gen.chunks[i].text
                  /\ HasSource(gen.chunks[i].metadata)
                        => ex[i].source = gen.chunks[i].metadata.source
            /\ (n = 0) <=> (gen.prompt.kind = "no_context")
            /\ gen.calls = 1

\* C11 witness: a call with more than three chunks, of different sources.
C11_Witness ==
    /\ gen.called
    /\ Len(gen.chunks) > 3
    /\ gen.chunks[1] # gen.chunks[2]
    /\ Len(gen.prompt.excerpts) = 3

\* The chunks process_documents cuts from one uploaded file
FileChunks(f) ==
    chunk_text(process_uploaded_file(f), ScaledChunkSize, ScaledOverlap)

\* The extraction of a file fails, or its extension is not supported.
Failed(f) == f.corrupt \/ Lower(f.ext) \notin {"pdf", "docx", "txt"}

IsPrefix(s, t) == Len(s) <= Len(t) /\ SubSeq(t, 1, Len(s)) = s

\* C12: after a process_documents call whose insert succeeds, whatever came
\* before, the store holds exactly the chunks of the current batch, in file
\* order then chunk order, and the metadata at each offset names the chunk's
\* file and the chunk's index within that file.
C12_FullRebuild ==
    (appOp.op = "process" /\ appOp.success) =>
        LET good == SelectSeq(appOp.files,
                              LAMBDA f : process_uploaded_file(f) # <<>>)
            Offset[k \in 0..Len(good)] ==
                IF k = 0 THEN 0 ELSE Offset[k - 1] + Len(FileChunks(good[k]))
        IN  /\ Len(texts) = Offset[Len(good)]
            /\ Len(metadata) = Len(texts)
            /\ index = Len(texts)
            /\ \A k \in 1..Len(good) :
               \A j \in 1..Len(FileChunks(good[k])) :
                  /\ texts[Offset[k - 1] + j] = FileChunks(good[k])[j]
                  /\ metadata[Offset[k - 1] + j] =
                        [source |-> good[k].name, chunk_id |-> j - 1]

\* C12 witness: a two-file batch inserted in a session that had processed an
\* earlier batch (its suggested questions are still there).
C12_Witness ==
    /\ appOp.op = "process"
    /\ appOp.success
    /\ suggested_questions # <<>>
    /\ Len(processed_files) = 2
    /\ Len(texts) > 2
    /\ metadata[1].source # metadata[Len(metadata)].source

\* C13 as claimed: every process_documents call and every clear_all_data call
\* leaves chat_history empty, and every other action only appends turns.
C13_ClearedOnEveryBatch ==
    [][/\ appOp'.op \in {"process", "clear"} => chat_history' = <<>>
       /\ appOp'.op \in {"ask", "click", "suggest"}
             => IsPrefix(chat_history, chat_history')]_vars

\* C13 amended: a process_documents call whose insert succeeds and every
\* clear_all_data call leave chat_history empty; a process_documents call that
\* extracts nothing or whose insert fails leaves chat_history as it was; every
\* other action only appends turns.
C13_ClearedOnInsertedBatch ==
    [][/\ (appOp'.op = "clear" \/ (appOp'.op = "process" /\ appOp'.success))
             => chat_history' = <<>>
       /\ (appOp'.op = "process" /\ ~appOp'.success)
             => chat_history' = chat_history
       /\ appOp'.op \in {"ask", "click", "suggest"}
             => IsPrefix(chat_history, chat_history')]_vars

\* C13 witness: a failed process_documents call over a chat that has turns.
C13_Witness ==
    /\ appOp.op = "process"
    /\ ~appOp.success
    /\ chat_history # <<>>

\* C14: in a batch whose insert succeeds, process_uploaded_file gives the
\* empty string for every file whose extraction fails or whose extension is
\* unsupported, the other files are still chunked and inserted, and
\* processed_files lists exactly the files that yielded text, in upload order.
C14_FailedFileOnly ==
    (appOp.op = "process" /\ appOp.success) =>
        LET files == appOp.files
            yielded == SelectSeq(files,
                           LAMBDA f : ~Failed(f) /\ Strip(f.text) # <<>>)
        IN  /\ \A i \in 1..Len(files) :
                  Failed(files[i]) => process_uploaded_file(files[i]) = <<>>
            /\ processed_files = [i \in 1..Len(yielded) |-> yielded[i].name]
            /\ \A i \in 1..Len(yielded) :
                  {j \in 1..Len(metadata) :
                      metadata[j].source = yielded[i].name} # {}

\* C14 witness: a failed file ahead of a readable one in an inserted batch.
C14_Witness ==
    /\ appOp.op = "process"
    /\ appOp.success
    /\ Len(appOp.files) >= 2
    /\ Failed(appOp.files[1])
    /\ ~Failed(appOp.files[2])
    /\ processed_files = <<appOp.files[2].name>>
    /\ texts # <<>>

\* C15: clean_text keeps a run of newlines as one newline: when the text has
\* a newline between two allowed non-space characters, the normalized text
\* has a newline, so that the chunker's newline boundary can be chosen.
C15_NewlinesPreserved ==
    (/\ pc \in {"loop", "done"}
     /\ \E i, j, k \in 1..Len(text) :
           /\ i < j /\ j < k
           /\ text[j] = "\n"
           /\ IsAllowed(text[i]) /\ ~IsSpace(text[i])
           /\ IsAllowed(text[k]) /\ ~IsSpace(text[k]))
        => "\n" \in Range(cleaned)

\* C16: documents_processed is True only if the store is non-empty and holds
\* the chunks of the files listed in processed_files.
C16_ProcessedImpliesStore ==
    documents_processed =>
        /\ index > 0
        /\ texts # <<>>
        /\ {metadata[i].source : i \in 1..Len(metadata)} = Range(processed_files)

\* C17: the chat log strictly alternates user, assistant, starting with a
\* user turn and ending with an assistant turn; an assistant turn carries
\* sources only when the retrieved context was non-empty, at most three.
C17_StrictAlternation ==
    /\ Len(chat_history) % 2 = 0
    /\ \A i \in 1..Len(chat_history) :
          /\ chat_history[i].role = IF i % 2 = 1 THEN "user" ELSE "assistant"
          /\ chat_history[i].has_sources =>
                /\ chat_history[i].role = "assistant"
                /\ Len(chat_history[i].sources) \in 1..3
    /\ appOp.op = "ask" =>
          (chat_history[Len(chat_history)].has_sources
              <=> appOp.context # <<>>)

====
